---- MODULE Spec2Model ----
(***************************************************************************)
(* Model of scripts/bootstrap.ts, the script that personalises the         *)
(* template: argument parsing, prompting, the five file patchers and the   *)
(* orchestration in main().                                                *)
(*                                                                         *)
(* Text is modelled as a sequence of one-character strings, so that        *)
(* split, join, trim, startsWith, includes and the regular expressions of  *)
(* the script are computed character by character as the script does.      *)
(***************************************************************************)
EXTENDS Integers, Sequences, FiniteSets, TLC

VARIABLES
    argv,                \* process.argv.slice(2)
    argi,                \* the loop index i of parseArgs
    processed,           \* indices parseArgs has handled as the loop's `arg`
    cliArgs,             \* the Partial<BootstrapOptions> built by parseArgs
    pc,                  \* position of the run
    options,             \* the BootstrapOptions of collectOptions / main
    currentPackageJson,  \* the values main read for the summary
    rli,                 \* the readline interface: "none", "open", "closed"
    asked,               \* the questions issued through promptUser, in order
    answers,             \* the raw lines read at the three configuration prompts
    collectedPackageJson,
                         \* the packageJsonValues of collectOptions
    confirmAnswer,       \* the raw answer read by confirmChanges
    exitCode,            \* the exit code of the process, -1 while it runs
    fs,                  \* the five target files
    fs0,                 \* the target files before the run
    done,                \* the patchers that returned normally, in order
    raised,              \* the stage that threw, "" when none did
    hist                 \* contents written by successive patcher runs

vars == <<argv, argi, processed, cliArgs, pc, options, currentPackageJson, rli,
          asked, answers, collectedPackageJson, confirmAnswer, exitCode, fs, fs0, done,
          raised, hist>>

(***************************************************************************)
(* Text                                                                    *)
(***************************************************************************)

\* A string literal as a sequence of characters.
Chars(s) == [i \in 1..Len(s) |-> SubSeq(s, i, i)]

\* The characters String.prototype.trim and the regular expression \s strip
\* (those that occur in the model's texts).
Whitespace == {" ", "\t", "\n", "\r"}

\* String.prototype.split with a one-character separator: the pieces between
\* the successive occurrences of sep.
Split(s, sep) ==
    LET seps == {i \in 1..Len(s) : s[i] = sep}
        n == Cardinality(seps)
        pos[k \in 0..(n + 1)] ==
            IF k = 0 THEN 0
            ELSE IF k = n + 1 THEN Len(s) + 1
            ELSE CHOOSE i \in seps : Cardinality({j \in seps : j < i}) = k - 1
    IN  [k \in 1..(n + 1) |-> SubSeq(s, pos[k - 1] + 1, pos[k] - 1)]

RECURSIVE JoinFrom(_, _, _)
JoinFrom(parts, sep, k) ==
    IF k > Len(parts) THEN <<>>
    ELSE IF k = Len(parts) THEN parts[k]
    ELSE parts[k] \o sep \o JoinFrom(parts, sep, k + 1)

\* Array.prototype.join.
Join(parts, sep) == JoinFrom(parts, sep, 1)

RECURSIVE TrimStart(_)
TrimStart(s) ==
    IF s # <<>> /\ Head(s) \in Whitespace THEN TrimStart(Tail(s)) ELSE s

RECURSIVE TrimEnd(_)
TrimEnd(s) ==
    IF s # <<>> /\ s[Len(s)] \in Whitespace
    THEN TrimEnd(SubSeq(s, 1, Len(s) - 1)) ELSE s

\* String.prototype.trim.
Trim(s) == TrimEnd(TrimStart(s))

\* String.prototype.startsWith / endsWith / includes.
StartsWith(s, p) == Len(s) >= Len(p) /\ SubSeq(s, 1, Len(p)) = p

EndsWith(s, p) == Len(s) >= Len(p) /\ SubSeq(s, Len(s) - Len(p) + 1, Len(s)) = p

\* p occurs in s at position i.
OccursAt(s, p, i) ==
    /\ i >= 1 /\ i + Len(p) - 1 <= Len(s)
    /\ p = <<>> \/ s[i] = p[1]
    /\ SubSeq(s, i, i + Len(p) - 1) = p

Includes(s, p) == \E i \in 1..(Len(s) + 1) : OccursAt(s, p, i)

\* String.prototype.toLowerCase on the letters the model's answers use.
LowerChar(c) ==
    CASE c = "N" -> "n" [] c = "O" -> "o" [] c = "Y" -> "y" [] c = "E" -> "e"
      [] c = "S" -> "s" [] OTHER -> c

ToLowerCase(s) == [i \in 1..Len(s) |-> LowerChar(s[i])]

(***************************************************************************)
(* Types & Constants                                                       *)
(***************************************************************************)

PACKAGE_MANAGERS == {Chars("npm"), Chars("yarn"), Chars("pnpm")}

DEFAULTS ==
    [name |-> Chars("topheman/vite-react-ts-template"),
     description |-> Chars("A starter template for frontend projects."),
     packageManager |-> Chars("npm"),
     interactive |-> TRUE]

ENV_VARS == [TITLE |-> Chars("VITE_TITLE"), DESCRIPTION |-> Chars("VITE_DESCRIPTION")]

RESOURCES_SECTION ==
    Chars("## Resources\n\nThis project is based on the [topheman/vite-react-ts-template](https://github.com/topheman/vite-react-ts-template) template.\n")

(***************************************************************************)
(* .env File Operations                                                    *)
(***************************************************************************)

\* A file of the project: whether it exists, and its text.
File(text) == [exists |-> TRUE, content |-> text]

NoFile == [exists |-> FALSE, content |-> <<>>]

\* The result of parseEnvLine: null, or a key and a value.
NullLine == [null |-> TRUE, key |-> <<>>, value |-> <<>>]

parseEnvLine(line) ==
    LET trimmed == Trim(line)
        parts == Split(trimmed, "=")
        key == parts[1]
        valueParts == Tail(parts)
    IN  IF trimmed = <<>> \/ StartsWith(trimmed, <<"#">>) THEN NullLine
        ELSE IF key = <<>> THEN NullLine
        ELSE [null |-> FALSE, key |-> Trim(key), value |-> Trim(Join(valueParts, <<"=">>))]

\* env[key] = value on a Record<string, string>.
SetKey(env, key, value) == [k \in DOMAIN env \cup {key} |-> IF k = key THEN value ELSE env[k]]

RECURSIVE readEnvLines(_, _, _)
readEnvLines(lines, k, env) ==
    IF k > Len(lines) THEN env
    ELSE LET parsed == parseEnvLine(lines[k])
         IN  readEnvLines(lines, k + 1,
                          IF parsed.null THEN env ELSE SetKey(env, parsed.key, parsed.value))

\* The empty Record<string, string>.
EmptyEnv == [k \in {} |-> <<>>]

readEnvFile(file) ==
    IF ~file.exists THEN EmptyEnv
    ELSE readEnvLines(Split(file.content, "\n"), 1, EmptyEnv)

\* isEnvVarLine recognising only an assignment of the empty value.
isEnvVarLineBare(line, key) == Trim(line) = key \o <<"=">>

isEnvVarLine(line, key) == StartsWith(Trim(line), key \o <<"=">>)

\* The index of the line updateEnvVarInPlace rewrites, 0 when it returns false.
FirstEnvVarLine(lines, key) ==
    IF \E i \in 1..Len(lines) : isEnvVarLine(lines[i], key)
    THEN CHOOSE i \in 1..Len(lines) :
            /\ isEnvVarLine(lines[i], key)
            /\ \A j \in 1..(i - 1) : ~isEnvVarLine(lines[j], key)
    ELSE 0

\* The lines after updateEnvVarInPlace(lines, key, value).
updateEnvVarInPlace(lines, key, value) ==
    LET i == FirstEnvVarLine(lines, key)
    IN  IF i = 0 THEN lines ELSE [lines EXCEPT ![i] = key \o <<"=">> \o value]

\* removeTrailingEmptyLines dropping every empty line, not only the trailing ones.
removeAllEmptyLines(lines) ==
    LET keep == {i \in 1..Len(lines) : Trim(lines[i]) # <<>>}
    IN  [k \in 1..Cardinality(keep) |->
            lines[CHOOSE i \in keep : Cardinality({j \in keep : j < i}) = k - 1]]

RECURSIVE removeTrailingEmptyLines(_)
removeTrailingEmptyLines(lines) ==
    IF Len(lines) > 0 /\ Trim(lines[Len(lines)]) = <<>>
    THEN removeTrailingEmptyLines(SubSeq(lines, 1, Len(lines) - 1))
    ELSE lines

\* addMissingEnvVars pushing its separator line even when no line is left.
addMissingEnvVarsAlwaysSeparated(lines, varsToAdd) ==
    IF Len(varsToAdd) = 0 THEN lines
    ELSE Append(removeTrailingEmptyLines(lines), <<>>)
            \o [k \in 1..Len(varsToAdd) |->
                    varsToAdd[k].key \o <<"=">> \o varsToAdd[k].value]

\* varsToAdd is a sequence of [key, value].
addMissingEnvVars(lines, varsToAdd) ==
    IF Len(varsToAdd) = 0 THEN lines
    ELSE LET kept == removeTrailingEmptyLines(lines)
             sep == IF Len(kept) > 0 THEN Append(kept, <<>>) ELSE kept
         IN  sep \o [k \in 1..Len(varsToAdd) |->
                        varsToAdd[k].key \o <<"=">> \o varsToAdd[k].value]

\* env[key] || "".
EnvValue(env, key) == IF key \in DOMAIN env THEN env[key] ELSE <<>>

\* The text writeEnvFile(env) writes, given the file it finds.
writeEnvFile(file, env) ==
    LET originalContent == IF file.exists THEN file.content ELSE <<>>
        lines0 == Split(originalContent, "\n")
        titleValue == EnvValue(env, ENV_VARS.TITLE)
        titleFound == FirstEnvVarLine(lines0, ENV_VARS.TITLE) # 0
        lines1 == updateEnvVarInPlace(lines0, ENV_VARS.TITLE, titleValue)
        descValue == EnvValue(env, ENV_VARS.DESCRIPTION)
        descFound == FirstEnvVarLine(lines1, ENV_VARS.DESCRIPTION) # 0
        lines2 == updateEnvVarInPlace(lines1, ENV_VARS.DESCRIPTION, descValue)
        varsToAdd ==
            (IF titleFound THEN <<>> ELSE <<[key |-> ENV_VARS.TITLE, value |-> titleValue]>>)
            \o (IF descFound THEN <<>>
                ELSE <<[key |-> ENV_VARS.DESCRIPTION, value |-> descValue]>>)
        lines3 == addMissingEnvVars(lines2, varsToAdd)
        content == Join(lines3, <<"\n">>)
    IN  content \o (IF content # <<>> /\ ~EndsWith(content, <<"\n">>) THEN <<"\n">> ELSE <<>>)

\* Lines 601-604 of applyBootstrapChanges: the read-modify-write of .env.
PatchEnv(file, name, description) ==
    LET env == readEnvFile(file)
        env1 == SetKey(env, ENV_VARS.TITLE, name)
        env2 == SetKey(env1, ENV_VARS.DESCRIPTION, description)
    IN  File(writeEnvFile(file, env2))

(***************************************************************************)
(* File Update Operations                                                  *)
(***************************************************************************)

\* updateReadmeTitle overwriting line 1 whatever it holds.
updateReadmeTitleReplacing(content, name) ==
    LET lines == Split(content, "\n")
    IN  Join([lines EXCEPT ![1] = <<"#", " ">> \o name], <<"\n">>)

updateReadmeTitle(content, name) ==
    LET lines == Split(content, "\n")
        title == <<"#", " ">> \o name
        lines1 == IF StartsWith(lines[1], <<"#">>)
                  THEN [lines EXCEPT ![1] = title]
                  ELSE [lines EXCEPT ![1] = title \o <<"\n">> \o lines[1]]
    IN  Join(lines1, <<"\n">>)

\* appendResourcesSection without its test for the header.
appendResourcesAlways(content) ==
    LET separator == IF EndsWith(content, <<"\n">>) THEN <<"\n">> ELSE <<"\n", "\n">>
    IN  content \o separator \o RESOURCES_SECTION

\* appendResourcesSection separating with a single newline in every case.
appendResourcesSectionOneNewline(content) ==
    IF Includes(content, Chars("## Resources")) THEN content
    ELSE content \o <<"\n">> \o RESOURCES_SECTION

appendResourcesSection(content) ==
    IF Includes(content, Chars("## Resources")) THEN content
    ELSE LET separator == IF EndsWith(content, <<"\n">>) THEN <<"\n">> ELSE <<"\n", "\n">>
         IN  content \o separator \o RESOURCES_SECTION

\* The text updateReadme(name) writes over the text it read.
updateReadme(content, name) == appendResourcesSection(updateReadmeTitle(content, name))

\* getWorktreeInstallCommand with the commands of the CI workflow.
getWorktreeInstallCommandFrozen(packageManager) ==
    CASE packageManager = Chars("npm") -> Chars("npm ci")
      [] packageManager = Chars("pnpm") -> Chars("pnpm install")
      [] packageManager = Chars("yarn") -> Chars("yarn install --frozen-lockfile")

getWorktreeInstallCommand(packageManager) ==
    CASE packageManager = Chars("npm") -> Chars("npm install")
      [] packageManager = Chars("pnpm") -> Chars("pnpm install")
      [] packageManager = Chars("yarn") -> Chars("yarn")

\* JSON.stringify({"setup-worktree": [cmd]}, null, 2) + "\n".
updateWorktreesJson(packageManager) ==
    Chars("{\n  \"setup-worktree\": [\n    \"")
        \o getWorktreeInstallCommand(packageManager)
        \o Chars("\"\n  ]\n}") \o <<"\n">>

\* getGithubActionsInstallCommand with the commands of the worktree setup.
getGithubActionsInstallCommandUnfrozen(packageManager) ==
    CASE packageManager = Chars("npm") -> Chars("npm install")
      [] packageManager = Chars("pnpm") -> Chars("pnpm install")
      [] packageManager = Chars("yarn") -> Chars("yarn")

getGithubActionsInstallCommand(packageManager) ==
    CASE packageManager = Chars("npm") -> Chars("npm ci")
      [] packageManager = Chars("pnpm") -> Chars("pnpm install")
      [] packageManager = Chars("yarn") -> Chars("yarn install --frozen-lockfile")

\* The characters the regular expression `.` does not match.
LineTerminators == {"\n", "\r"}

RECURSIVE SkipWhitespace(_, _)
\* The first index at or after i that holds no whitespace (\s* from i).
SkipWhitespace(s, i) ==
    IF i <= Len(s) /\ s[i] \in Whitespace THEN SkipWhitespace(s, i + 1) ELSE i

RECURSIVE SkipDots(_, _)
\* The first index at or after i that `.` does not match (.* from i).
SkipDots(s, i) ==
    IF i <= Len(s) /\ s[i] \notin LineTerminators THEN SkipDots(s, i + 1) ELSE i

StepName == Chars("- name: Install dependencies")

\* /(\s+- name: Install dependencies\s+run: )(.+)/ matches with its literal
\* "- name: Install dependencies" at position p: whitespace before it, whitespace
\* after it up to "run: ", and at least one character for (.+).
InstallPatternAt(content, p) ==
    LET q == p + Len(StepName)
        r == SkipWhitespace(content, q)
    IN  /\ OccursAt(content, StepName, p)
        /\ p > 1 /\ content[p - 1] \in Whitespace
        /\ r > q
        /\ OccursAt(content, Chars("run: "), r)
        /\ SkipDots(content, r + 5) > r + 5

\* installPattern.test(content)
InstallPatternTest(content) == \E p \in 1..Len(content) : InstallPatternAt(content, p)

\* content.replace(installPattern, `$1${installCommand}`): the leftmost match.
InstallPatternReplace(content, installCommand) ==
    LET p == CHOOSE x \in 1..Len(content) :
                /\ InstallPatternAt(content, x)
                /\ \A y \in 1..(x - 1) : ~InstallPatternAt(content, y)
        arg == SkipWhitespace(content, p + Len(StepName)) + 5
        end == SkipDots(content, arg)
    IN  SubSeq(content, 1, arg - 1) \o installCommand \o SubSeq(content, end, Len(content))

\* /run: .+/ matches in line at position r.
RunPatternAt(line, r) == OccursAt(line, Chars("run: "), r) /\ SkipDots(line, r + 5) > r + 5

\* line.replace(/run: .+/, `run: ${installCommand}`)
RunPatternReplace(line, installCommand) ==
    IF \E r \in 1..Len(line) : RunPatternAt(line, r)
    THEN LET r == CHOOSE x \in 1..Len(line) :
                    RunPatternAt(line, x) /\ \A y \in 1..(x - 1) : ~RunPatternAt(line, y)
         IN  SubSeq(line, 1, r - 1) \o Chars("run: ") \o installCommand
                \o SubSeq(line, SkipDots(line, r + 5), Len(line))
    ELSE line

\* The guard of the fallback loop of updateDeployYml at index i (1-based).
FallbackAt(lines, i) ==
    /\ Includes(lines[i], Chars("Install dependencies"))
    /\ i + 1 <= Len(lines)
    /\ Includes(lines[i + 1], Chars("run:"))

\* The fallback branch ending the text it joins with one more newline.
DeployFallbackTerminated(content, installCommand) ==
    LET lines == Split(content, "\n")
        hits == {i \in 1..Len(lines) : FallbackAt(lines, i)}
        lines1 == IF hits = {} THEN lines
                  ELSE LET i == CHOOSE x \in hits : \A y \in hits : x <= y
                       IN  [lines EXCEPT ![i + 1] = RunPatternReplace(lines[i + 1], installCommand)]
    IN  Join(lines1, <<"\n">>) \o <<"\n">>

\* The fallback branch of updateDeployYml: manual line-by-line replacement.
DeployFallback(content, installCommand) ==
    LET lines == Split(content, "\n")
        hits == {i \in 1..Len(lines) : FallbackAt(lines, i)}
        lines1 == IF hits = {} THEN lines
                  ELSE LET i == CHOOSE x \in hits : \A y \in hits : x <= y
                       IN  [lines EXCEPT ![i + 1] = RunPatternReplace(lines[i + 1], installCommand)]
    IN  Join(lines1, <<"\n">>)

\* The text updateDeployYml(packageManager) writes over the text it read.
updateDeployYml(content, packageManager) ==
    LET installCommand == getGithubActionsInstallCommand(packageManager)
    IN  IF InstallPatternTest(content)
        THEN InstallPatternReplace(content, installCommand)
        ELSE DeployFallback(content, installCommand)

(***************************************************************************)
(* Argument Parsing                                                        *)
(***************************************************************************)

\* The index of the first token at or after startIndex that starts with "--",
\* Len(args) + 1 when there is none: where the loop of collectFlagValue stops.
RECURSIVE FlagValueEnd(_, _)
FlagValueEnd(args, i) ==
    IF i <= Len(args) /\ ~StartsWith(args[i], <<"-", "-">>)
    THEN FlagValueEnd(args, i + 1) ELSE i

\* collectFlagValue returning the index of the flag it stopped at: the loop's
\* increment then skips that flag.
collectFlagValueSkipping(args, startIndex) ==
    LET i == FlagValueEnd(args, startIndex)
    IN  [value |-> Join(SubSeq(args, startIndex, i - 1), <<" ">>), nextIndex |-> i]

\* collectFlagValue(args, startIndex): value and nextIndex (indices are 1-based).
collectFlagValue(args, startIndex) ==
    LET i == FlagValueEnd(args, startIndex)
    IN  [value |-> Join(SubSeq(args, startIndex, i - 1), <<" ">>), nextIndex |-> i - 1]

\* The options object parseArgs starts from: no field is set.
NoCliArgs ==
    [present |-> {}, name |-> <<>>, description |-> <<>>, packageManager |-> <<>>,
     interactive |-> FALSE]

\* options.field = value.
SetCli(o, field, value) == [o EXCEPT !.present = @ \cup {field}, ![field] = value]

\* args[i] exists and is a non-empty string (truthy).
Truthy(args, i) == i <= Len(args) /\ args[i] # <<>>

InParse == pc = "parseArgs" /\ argi <= Len(argv)

ParseFrame == UNCHANGED <<argv, options, currentPackageJson, rli, asked, answers,
                          collectedPackageJson, confirmAnswer, fs, fs0, done, raised, hist>>

\* arg === "--name"
ParseName ==
    /\ InParse /\ argv[argi] = Chars("--name")
    /\ LET result == collectFlagValue(argv, argi + 1)
       IN  /\ cliArgs' = IF result.value # <<>> THEN SetCli(cliArgs, "name", result.value)
                         ELSE cliArgs
           /\ argi' = result.nextIndex + 1
    /\ processed' = Append(processed, argi)
    /\ UNCHANGED <<pc, exitCode>> /\ ParseFrame

\* arg === "--description"
ParseDescription ==
    /\ InParse /\ argv[argi] = Chars("--description")
    /\ LET result == collectFlagValue(argv, argi + 1)
       IN  /\ cliArgs' = IF result.value # <<>>
                         THEN SetCli(cliArgs, "description", result.value)
                         ELSE cliArgs
           /\ argi' = result.nextIndex + 1
    /\ processed' = Append(processed, argi)
    /\ UNCHANGED <<pc, exitCode>> /\ ParseFrame

\* The guard of the third branch: arg === "--packageManager" && args[i + 1]
IsPackageManagerFlag == argv[argi] = Chars("--packageManager") /\ Truthy(argv, argi + 1)

\* validatePackageManager returns its argument.
ParsePackageManager ==
    /\ InParse /\ IsPackageManagerFlag
    /\ argv[argi + 1] \in PACKAGE_MANAGERS
    /\ cliArgs' = SetCli(cliArgs, "packageManager", argv[argi + 1])
    /\ argi' = argi + 2
    /\ processed' = Append(processed, argi)
    /\ UNCHANGED <<pc, exitCode>> /\ ParseFrame

\* validatePackageManager reports the value and calls process.exit(1).
ParsePackageManagerInvalid ==
    /\ InParse /\ IsPackageManagerFlag
    /\ argv[argi + 1] \notin PACKAGE_MANAGERS
    /\ exitCode' = 1
    /\ pc' = "exited"
    /\ processed' = Append(processed, argi)
    /\ UNCHANGED <<argi, cliArgs>> /\ ParseFrame

\* arg === "--interactive"
ParseInteractive ==
    /\ InParse /\ ~IsPackageManagerFlag /\ argv[argi] = Chars("--interactive")
    /\ IF argi + 1 <= Len(argv) /\ argv[argi + 1] \in {Chars("false"), Chars("0")}
       THEN cliArgs' = SetCli(cliArgs, "interactive", FALSE) /\ argi' = argi + 2
       ELSE cliArgs' = SetCli(cliArgs, "interactive", TRUE) /\ argi' = argi + 1
    /\ processed' = Append(processed, argi)
    /\ UNCHANGED <<pc, exitCode>> /\ ParseFrame

\* arg === "--no-interactive"
ParseNoInteractive ==
    /\ InParse /\ argv[argi] = Chars("--no-interactive")
    /\ cliArgs' = SetCli(cliArgs, "interactive", FALSE)
    /\ argi' = argi + 1
    /\ processed' = Append(processed, argi)
    /\ UNCHANGED <<pc, exitCode>> /\ ParseFrame

\* No branch of the loop body matches: the token is ignored.
ParseIgnored ==
    /\ InParse
    /\ argv[argi] \notin {Chars("--name"), Chars("--description"), Chars("--interactive"),
                          Chars("--no-interactive")}
    /\ ~IsPackageManagerFlag
    /\ argi' = argi + 1
    /\ processed' = Append(processed, argi)
    /\ UNCHANGED <<cliArgs, pc, exitCode>> /\ ParseFrame

\* The loop of parseArgs ends and main goes on with the options.
ParseDone ==
    /\ pc = "parseArgs" /\ argi > Len(argv)
    /\ pc' = "createReadline"
    /\ UNCHANGED <<argi, processed, cliArgs, exitCode>> /\ ParseFrame

(***************************************************************************)
(* Package.json Operations, Interactive Prompts                            *)
(***************************************************************************)

\* The output of `npm pkg get <field>`: the JSON string and a newline.
NpmPkgGet(value) == <<"\"">> \o value \o <<"\"", "\n">>

\* output.trim().replace(/^"|"$/g, "")
extractNpmPkgValue(output) ==
    LET t == Trim(output)
        t1 == IF StartsWith(t, <<"\"">>) THEN Tail(t) ELSE t
    IN  IF EndsWith(t1, <<"\"">>) THEN SubSeq(t1, 1, Len(t1) - 1) ELSE t1

\* getCurrentPackageJsonValues(): ok is FALSE when execSync throws.
getCurrentPackageJsonValues(pkg, ok) ==
    IF ok
    THEN [name |-> extractNpmPkgValue(NpmPkgGet(pkg.name)),
          description |-> extractNpmPkgValue(NpmPkgGet(pkg.description))]
    ELSE [name |-> DEFAULTS.name, description |-> DEFAULTS.description]

\* a || b on strings.
OrElse(a, b) == IF a # <<>> THEN a ELSE b

\* mergeOptions preferring the manifest's name and description to the CLI's.
mergeOptionsManifestFirst(cli, packageJsonValues) ==
    [name |-> OrElse(packageJsonValues.name, OrElse(cli.name, DEFAULTS.name)),
     description |->
        OrElse(packageJsonValues.description, OrElse(cli.description, DEFAULTS.description)),
     packageManager |-> OrElse(cli.packageManager, DEFAULTS.packageManager),
     interactive |->
        IF "interactive" \in cli.present THEN cli.interactive ELSE DEFAULTS.interactive]

mergeOptions(cli, packageJsonValues) ==
    [name |-> OrElse(cli.name, OrElse(packageJsonValues.name, DEFAULTS.name)),
     description |->
        OrElse(cli.description, OrElse(packageJsonValues.description, DEFAULTS.description)),
     packageManager |-> OrElse(cli.packageManager, DEFAULTS.packageManager),
     interactive |->
        IF "interactive" \in cli.present THEN cli.interactive ELSE DEFAULTS.interactive]

\* process.argv.includes(token)
ArgvIncludes(args, token) == \E i \in 1..Len(args) : args[i] = token

shouldSkipInteractive(cli, args) ==
    \/ ("interactive" \in cli.present /\ cli.interactive = FALSE)
    \/ ArgvIncludes(args, Chars("--no-interactive"))
    \/ ArgvIncludes(args, Chars("--interactive=false"))

\* The lines the user may type at the prompts.
NameAnswers == {<<>>, Chars(" my-app ")}

DescriptionAnswers == {<<>>, Chars("demo")}

PackageManagerAnswers == {<<>>, Chars("yarn"), Chars(" pnpm "), Chars("bad")}

ConfirmAnswers == {<<>>, Chars("n"), Chars(" No "), Chars("NO"), Chars("y"), Chars("nope")}

\* The options before collectOptions has built them.
NoOptions ==
    [name |-> <<>>, description |-> <<>>, packageManager |-> <<>>, interactive |-> FALSE]

RunFrame == UNCHANGED <<argv, argi, processed, cliArgs, hist, fs0>>

\* const rli = createReadlineInterface()
CreateReadline ==
    /\ pc = "createReadline"
    /\ rli' = "open"
    /\ pc' = "readPackageJson"
    /\ UNCHANGED <<options, currentPackageJson, asked, answers, collectedPackageJson,
                   confirmAnswer, exitCode, fs, done, raised>>
    /\ RunFrame

\* const currentPackageJson = getCurrentPackageJsonValues()
ReadPackageJson ==
    /\ pc = "readPackageJson"
    /\ \E ok \in BOOLEAN : currentPackageJson' = getCurrentPackageJsonValues(fs.pkg, ok)
    /\ pc' = "collectOptions"
    /\ UNCHANGED <<options, rli, asked, answers, collectedPackageJson, confirmAnswer, exitCode,
                   fs, done, raised>>
    /\ RunFrame

\* collectOptions up to its test of the interactive mode.
CollectOptions ==
    /\ pc = "collectOptions"
    /\ \E ok \in BOOLEAN : collectedPackageJson' = getCurrentPackageJsonValues(fs.pkg, ok)
    /\ options' = mergeOptions(cliArgs, collectedPackageJson')
    /\ pc' = IF ~shouldSkipInteractive(cliArgs, argv) /\ options'.interactive
             THEN "promptName" ELSE "summary"
    /\ UNCHANGED <<currentPackageJson, rli, asked, answers, confirmAnswer, exitCode, fs, done,
                   raised>>
    /\ RunFrame

\* promptForUserInput: the project name.
PromptName ==
    /\ pc = "promptName"
    /\ asked' = Append(asked, "name")
    /\ \E nameAnswer \in NameAnswers :
          /\ answers' = [answers EXCEPT !.name = nameAnswer]
          /\ options' = IF Trim(nameAnswer) # <<>>
                        THEN [options EXCEPT !.name = Trim(nameAnswer)] ELSE options
    /\ pc' = "promptDescription"
    /\ UNCHANGED <<currentPackageJson, rli, collectedPackageJson, confirmAnswer, exitCode, fs,
                   done, raised>>
    /\ RunFrame

\* promptForUserInput: the project description.
PromptDescription ==
    /\ pc = "promptDescription"
    /\ asked' = Append(asked, "description")
    /\ \E descAnswer \in DescriptionAnswers :
          /\ answers' = [answers EXCEPT !.description = descAnswer]
          /\ options' = IF Trim(descAnswer) # <<>>
                        THEN [options EXCEPT !.description = Trim(descAnswer)] ELSE options
    /\ pc' = "promptPackageManager"
    /\ UNCHANGED <<currentPackageJson, rli, collectedPackageJson, confirmAnswer, exitCode, fs,
                   done, raised>>
    /\ RunFrame

\* promptForUserInput: the package manager.
PromptPackageManager ==
    /\ pc = "promptPackageManager"
    /\ asked' = Append(asked, "packageManager")
    /\ \E pmAnswer \in PackageManagerAnswers :
          LET trimmedPm == Trim(pmAnswer)
          IN  /\ answers' = [answers EXCEPT !.packageManager = pmAnswer]
              /\ options' = IF trimmedPm # <<>> /\ trimmedPm \in PACKAGE_MANAGERS
                            THEN [options EXCEPT !.packageManager = trimmedPm] ELSE options
    /\ pc' = "summary"
    /\ UNCHANGED <<currentPackageJson, rli, collectedPackageJson, confirmAnswer, exitCode, fs,
                   done, raised>>
    /\ RunFrame

(***************************************************************************)
(* Summary & Confirmation, Main Application Flow                           *)
(***************************************************************************)

\* confirmChanges comparing the raw answer: it forgets toLowerCase and trim.
confirmChangesRaw(answer) == answer # Chars("n") /\ answer # Chars("no")

\* The value confirmChanges resolves to for an answer.
confirmChanges(answer) ==
    LET normalized == Trim(ToLowerCase(answer))
    IN  normalized # Chars("n") /\ normalized # Chars("no")

\* main: showSummary and confirmChanges in interactive mode.
ConfirmChanges ==
    /\ pc = "summary" /\ options.interactive
    /\ asked' = Append(asked, "confirm")
    /\ \E answer \in ConfirmAnswers :
          /\ confirmAnswer' = answer
          /\ pc' = IF confirmChanges(answer) THEN "updatePackageJson" ELSE "finally"
    /\ UNCHANGED <<options, currentPackageJson, rli, answers, collectedPackageJson, exitCode, fs,
                   done, raised>>
    /\ RunFrame

\* main: options.interactive is false, the changes are applied at once.
SkipConfirm ==
    /\ pc = "summary" /\ ~options.interactive
    /\ pc' = "updatePackageJson"
    /\ UNCHANGED <<options, currentPackageJson, rli, asked, answers, collectedPackageJson,
                   confirmAnswer, exitCode, fs, done, raised>>
    /\ RunFrame

ApplyFrame ==
    UNCHANGED <<options, currentPackageJson, rli, asked, answers, collectedPackageJson,
                confirmAnswer, exitCode>>

\* A patcher throws: control goes to the catch block of main.
Throw(stage) == pc' = "catch" /\ raised' = stage /\ UNCHANGED done

\* A patcher returns: the next one starts.
Return(stage, next) == pc' = next /\ done' = Append(done, stage) /\ UNCHANGED raised

\* updatePackageJson: two `npm pkg set`, either of which may throw.
UpdatePackageJson ==
    /\ pc = "updatePackageJson"
    /\ \/ fs' = fs /\ Throw("package.json")
       \/ fs' = [fs EXCEPT !.pkg.name = options.name] /\ Throw("package.json")
       \/ /\ fs' = [fs EXCEPT !.pkg = [name |-> options.name,
                                       description |-> options.description]]
          /\ Return("package.json", "updateReadme")
    /\ ApplyFrame /\ RunFrame

\* updateReadme: readFileSync throws on a missing file, writeFileSync may throw.
UpdateReadme ==
    /\ pc = "updateReadme"
    /\ \/ fs' = fs /\ Throw("README.md")
       \/ /\ fs.readme.exists
          /\ fs' = [fs EXCEPT !.readme = File(updateReadme(fs.readme.content, options.name))]
          /\ Return("README.md", "updateEnv")
    /\ ApplyFrame /\ RunFrame

\* readEnvFile, the two assignments and writeEnvFile, which may throw.
UpdateEnv ==
    /\ pc = "updateEnv"
    /\ \/ fs' = fs /\ Throw(".env")
       \/ /\ fs' = [fs EXCEPT !.env = PatchEnv(fs.env, options.name, options.description)]
          /\ Return(".env", "updateWorktreesJson")
    /\ ApplyFrame /\ RunFrame

\* updateWorktreesJson: writeFileSync may throw.
UpdateWorktreesJson ==
    /\ pc = "updateWorktreesJson"
    /\ \/ fs' = fs /\ Throw(".cursor/worktrees.json")
       \/ /\ fs' = [fs EXCEPT !.worktrees = File(updateWorktreesJson(options.packageManager))]
          /\ Return(".cursor/worktrees.json", "updateDeployYml")
    /\ ApplyFrame /\ RunFrame

\* updateDeployYml: readFileSync throws on a missing file, writeFileSync may throw.
\* After it applyBootstrapChanges returns and main leaves the try block.
UpdateDeployYml ==
    /\ pc = "updateDeployYml"
    /\ \/ fs' = fs /\ Throw(".github/workflows/deploy.yml")
       \/ /\ fs.deploy.exists
          /\ fs' = [fs EXCEPT !.deploy =
                        File(updateDeployYml(fs.deploy.content, options.packageManager))]
          /\ Return(".github/workflows/deploy.yml", "finally")
    /\ ApplyFrame /\ RunFrame

\* The catch block of main restoring the pre-run files before it exits.
CatchRollingBack ==
    /\ pc = "catch"
    /\ exitCode' = 1
    /\ pc' = "exited"
    /\ fs' = fs0
    /\ UNCHANGED <<options, currentPackageJson, rli, asked, answers, collectedPackageJson,
                   confirmAnswer, done, raised>>
    /\ RunFrame

\* catch (error) { console.error(...); process.exit(1); }
\* process.exit ends the process at once: the finally block is not run.
Catch ==
    /\ pc = "catch"
    /\ exitCode' = 1
    /\ pc' = "exited"
    /\ UNCHANGED <<options, currentPackageJson, rli, asked, answers, collectedPackageJson,
                   confirmAnswer, fs, done, raised>>
    /\ RunFrame

\* finally { rli.close(); }
Finally ==
    /\ pc = "finally"
    /\ rli' = "closed"
    /\ pc' = "returned"
    /\ UNCHANGED <<options, currentPackageJson, asked, answers, collectedPackageJson,
                   confirmAnswer, exitCode, fs, done, raised>>
    /\ RunFrame

\* main() has resolved and nothing is pending: the process ends with code 0.
ProcessEnd ==
    /\ pc = "returned"
    /\ exitCode' = 0
    /\ pc' = "exited"
    /\ UNCHANGED <<options, currentPackageJson, rli, asked, answers, collectedPackageJson,
                   confirmAnswer, fs, done, raised>>
    /\ RunFrame

(***************************************************************************)
(* The run of the script                                                   *)
(***************************************************************************)

\* The project before the run: the files of the template.
PackageJson0 ==
    [name |-> Chars("vite-react-ts-template"), description |-> Chars("A starter template.")]

\* A manifest whose description is the empty string.
PackageJsonBare == [name |-> Chars("vite-react-ts-template"), description |-> <<>>]

Readme0 == File(Chars("# vite-react-ts-template\n\nA starter template.\n"))

Env0 == File(Chars("# env\nVITE_TITLE=old\n"))

Worktrees0 == File(Chars("{\n  \"setup-worktree\": [\n    \"pnpm install\"\n  ],\n  \"x\": 1\n}\n"))

Deploy0 ==
    File(Chars("jobs:\n  build:\n    steps:\n      - name: Install dependencies\n        run: npm ci\n      - name: Build\n        run: npm run build\n"))

\* A workflow without the step.
DeployBare == File(Chars("jobs:\n  build:\n    steps:\n      - name: Build\n        run: npm run build\n"))

\* A workflow whose step has another instruction before its run line.
DeployOther ==
    File(Chars("    steps:\n      - name: Install dependencies\n        uses: setup\n        run: npm ci\n"))

\* A workflow whose step name and run line are separated by a blank line.
DeployLoose ==
    File(Chars("    steps:\n      - name: Install dependencies\n\n        run: npm ci\n"))

Project0 ==
    {[pkg |-> p, readme |-> Readme0, env |-> e, worktrees |-> Worktrees0,
      deploy |-> Deploy0] : p \in {PackageJson0, PackageJsonBare}, e \in {NoFile, Env0}}
    \cup {[pkg |-> PackageJson0, readme |-> Readme0, env |-> Env0, worktrees |-> Worktrees0,
           deploy |-> d] : d \in {DeployBare, DeployOther, DeployLoose}}

\* The command lines of the runs.
ArgvSamples ==
    LET T(s) == Chars(s)
    IN  {<<>>,
         <<T("--no-interactive")>>,
         <<T("--interactive=false")>>,
         <<T("--interactive"), T("false")>>,
         <<T("--interactive")>>,
         <<T("--name"), T("app")>>,
         <<T("--no-interactive"), T("--interactive")>>,
         <<T("--packageManager"), T("bad")>>,
         <<T("--packageManager"), <<>>, T("--no-interactive")>>,
         <<T("--packageManager")>>,
         <<T("--packageManager"), T("yarn"), T("--no-interactive")>>,
         <<T("--name"), T("my"), T("app"), T("--description"), T("demo"),
           T("--no-interactive")>>,
         <<T("--name"), T("app"), T("--packageManager"), T("Yarn")>>}

\* The parts of the state a run has not touched yet.
RunStart ==
    /\ argi = 1
    /\ processed = <<>>
    /\ cliArgs = NoCliArgs
    /\ currentPackageJson = [name |-> <<>>, description |-> <<>>]
    /\ rli = "none"
    /\ asked = <<>>
    /\ answers = [name |-> <<>>, description |-> <<>>, packageManager |-> <<>>]
    /\ collectedPackageJson = [name |-> <<>>, description |-> <<>>]
    /\ confirmAnswer = <<>>
    /\ exitCode = -1
    /\ done = <<>>
    /\ raised = ""
    /\ hist = <<>>

Init ==
    /\ argv \in ArgvSamples
    /\ pc = "parseArgs"
    /\ options = NoOptions
    /\ fs \in Project0
    /\ fs0 = fs
    /\ RunStart

Next ==
    \/ ParseName \/ ParseDescription \/ ParsePackageManager \/ ParsePackageManagerInvalid
    \/ ParseInteractive \/ ParseNoInteractive \/ ParseIgnored \/ ParseDone
    \/ CreateReadline \/ ReadPackageJson \/ CollectOptions
    \/ PromptName \/ PromptDescription \/ PromptPackageManager
    \/ ConfirmChanges \/ SkipConfirm
    \/ UpdatePackageJson \/ UpdateReadme \/ UpdateEnv \/ UpdateWorktreesJson
    \/ UpdateDeployYml
    \/ Catch \/ Finally \/ ProcessEnd

Spec == Init /\ [][Next]_vars

(***************************************************************************)
(* The patchers on their own: each is applied, run after run, to a file    *)
(* drawn from a bounded set of texts.                                      *)
(***************************************************************************)

\* The number of successive runs of a patcher on the same file.
MaxRuns == 2

\* All texts of at most n lines drawn from pool, joined by newlines; a final
\* empty line of the pool makes the text end with a newline.
Texts(pool, n) == {Join(l, <<"\n">>) : l \in UNION {[1..k -> pool] : k \in 0..n}}

\* The state of a run that has parsed an empty command line.
PatcherStart ==
    /\ argv = <<>>
    /\ fs0 = fs
    /\ RunStart

\* The options of the runs that apply one patcher.
PatcherOptions(names, descriptions, managers) ==
    {[name |-> n, description |-> d, packageManager |-> m, interactive |-> FALSE] :
        n \in names, d \in descriptions, m \in managers}

PatcherFrame ==
    UNCHANGED <<argv, argi, processed, cliArgs, pc, options, currentPackageJson, rli, asked,
                answers, collectedPackageJson, confirmAnswer, exitCode, fs0, done, raised>>

\* ---- .env ----

MaxEnvLines == 4

EnvLinePool ==
    {Chars("# c"), <<>>, Chars("A=1"), Chars("VITE_TITLE=t"), Chars("VITE_DESCRIPTION=d"),
     Chars("VITE_TITLE =s")}

EnvFiles == {NoFile} \cup {File(t) : t \in Texts(EnvLinePool, MaxEnvLines)}

InitEnv ==
    /\ fs \in {[pkg |-> PackageJson0, readme |-> Readme0, env |-> e, worktrees |-> Worktrees0,
                deploy |-> Deploy0] : e \in EnvFiles}
    /\ options \in PatcherOptions({Chars("app"), Chars("my app")}, {Chars("demo")},
                                  {Chars("npm")})
    /\ pc = "updateEnv"
    /\ PatcherStart

\* One more run of lines 599-604 of applyBootstrapChanges on the .env file.
RunUpdateEnv ==
    /\ pc = "updateEnv" /\ Len(hist) < MaxRuns
    /\ fs' = [fs EXCEPT !.env = PatchEnv(fs.env, options.name, options.description)]
    /\ hist' = Append(hist, fs'.env.content)
    /\ PatcherFrame

NextEnv == RunUpdateEnv

SpecEnv == InitEnv /\ [][NextEnv]_vars

\* ---- README.md ----

MaxReadmeLines == 3

ReadmeLinePool == {Chars("# old"), Chars("text"), <<>>, Chars("## Resources")}

InitReadme ==
    /\ fs \in {[pkg |-> PackageJson0, readme |-> File(t), env |-> NoFile,
                worktrees |-> Worktrees0, deploy |-> Deploy0] :
                    t \in Texts(ReadmeLinePool, MaxReadmeLines)}
    /\ options \in PatcherOptions({Chars("app"), Chars("my app")}, {Chars("demo")},
                                  {Chars("npm")})
    /\ pc = "updateReadme"
    /\ PatcherStart

\* One more run of updateReadme(options.name).
RunUpdateReadme ==
    /\ pc = "updateReadme" /\ Len(hist) < MaxRuns
    /\ fs' = [fs EXCEPT !.readme = File(updateReadme(fs.readme.content, options.name))]
    /\ hist' = Append(hist, fs'.readme.content)
    /\ PatcherFrame

NextReadme == RunUpdateReadme

SpecReadme == InitReadme /\ [][NextReadme]_vars

\* ---- .github/workflows/deploy.yml ----

MaxDeployLines == 4

DeployLinePool ==
    {Chars("steps:"), Chars("  - name: Install dependencies"),
     Chars("- name: Install dependencies"), Chars("    run: npm ci"), <<>>,
     Chars("  - name: Install dependencies (all)")}

InitDeploy ==
    /\ fs \in {[pkg |-> PackageJson0, readme |-> Readme0, env |-> NoFile,
                worktrees |-> Worktrees0, deploy |-> File(t)] :
                    t \in Texts(DeployLinePool, MaxDeployLines)}
    /\ options \in PatcherOptions({Chars("app")}, {Chars("demo")}, PACKAGE_MANAGERS)
    /\ pc = "updateDeployYml"
    /\ PatcherStart

\* One more run of updateDeployYml(options.packageManager).
RunUpdateDeployYml ==
    /\ pc = "updateDeployYml" /\ Len(hist) < MaxRuns
    /\ fs' = [fs EXCEPT !.deploy =
                  File(updateDeployYml(fs.deploy.content, options.packageManager))]
    /\ hist' = Append(hist, fs'.deploy.content)
    /\ PatcherFrame

NextDeploy == RunUpdateDeployYml

SpecDeploy == InitDeploy /\ [][NextDeploy]_vars

\* ---- .cursor/worktrees.json ----

MaxWorktreesLines == 3

WorktreesLinePool ==
    {Chars("{"), Chars("  \"setup-worktree\": [\"yarn\"],"), Chars("  \"x\": 1"), Chars("}"), <<>>}

InitWorktrees ==
    /\ fs \in {[pkg |-> PackageJson0, readme |-> Readme0, env |-> NoFile, worktrees |-> w,
                deploy |-> Deploy0] :
                    w \in {NoFile} \cup
                          {File(t) : t \in Texts(WorktreesLinePool, MaxWorktreesLines)}}
    /\ options \in PatcherOptions({Chars("app")}, {Chars("demo")}, PACKAGE_MANAGERS)
    /\ pc = "updateWorktreesJson"
    /\ PatcherStart

\* One more run of updateWorktreesJson(options.packageManager).
RunUpdateWorktreesJson ==
    /\ pc = "updateWorktreesJson" /\ Len(hist) < MaxRuns
    /\ fs' = [fs EXCEPT !.worktrees = File(updateWorktreesJson(options.packageManager))]
    /\ hist' = Append(hist, fs'.worktrees.content)
    /\ PatcherFrame

NextWorktrees == RunUpdateWorktreesJson

SpecWorktrees == InitWorktrees /\ [][NextWorktrees]_vars

\* ---- parseArgs ----

MaxArgs == 5

ArgTokens ==
    {Chars("--name"), Chars("--description"), Chars("--packageManager"),
     Chars("--interactive"), Chars("--no-interactive"), Chars("yarn"), Chars("a")}

InitArgs ==
    /\ argv \in UNION {[1..k -> ArgTokens] : k \in 0..MaxArgs}
    /\ pc = "parseArgs"
    /\ options = NoOptions
    /\ fs \in {[pkg |-> PackageJson0, readme |-> Readme0, env |-> NoFile,
                worktrees |-> Worktrees0, deploy |-> Deploy0]}
    /\ fs0 = fs
    /\ RunStart

NextArgs ==
    \/ ParseName \/ ParseDescription \/ ParsePackageManager \/ ParsePackageManagerInvalid
    \/ ParseInteractive \/ ParseNoInteractive \/ ParseIgnored \/ ParseDone

SpecArgs == InitArgs /\ [][NextArgs]_vars

(***************************************************************************)
(* Properties of the run                                                   *)
(***************************************************************************)

\* The confirmation prompt has been answered.
Confirmed == \E k \in 1..Len(asked) : asked[k] = "confirm"

\* The answer's trimmed, lower-cased form is "n" or "no".
Declines(answer) == Trim(ToLowerCase(answer)) \in {Chars("n"), Chars("no")}

\* No patcher has started.
NoPatcherRan == done = <<>> /\ raised = "" /\ pc # "updatePackageJson"

\* C1: when the user declines at the confirmation prompt no patcher runs, every
\* target file keeps its pre-run content and the process ends with exit code 0;
\* every other answer, the empty one included, starts the patchers.
C1_DeclineLeavesFilesUntouched ==
    Confirmed =>
        IF Declines(confirmAnswer)
        THEN /\ NoPatcherRan
             /\ fs = fs0
             /\ pc \in {"finally", "returned", "exited"}
             /\ exitCode = (IF pc = "exited" THEN 0 ELSE -1)
        ELSE ~NoPatcherRan

\* A run declined with " No " has ended with exit code 0.
C1_Witness ==
    /\ Confirmed /\ confirmAnswer = Chars(" No ")
    /\ pc = "exited" /\ exitCode = 0

\* The command line holds `--packageManager v` with v not npm, yarn or pnpm.
InvalidPackageManagerGiven ==
    \E i \in 1..(Len(argv) - 1) :
        argv[i] = Chars("--packageManager") /\ argv[i + 1] \notin PACKAGE_MANAGERS

\* C2: with `--packageManager v`, v not one of npm, yarn, pnpm, the run ends with
\* exit code 1 during argument parsing: no prompt, no target file touched.
C2_InvalidPackageManagerExits ==
    InvalidPackageManagerGiven =>
        /\ pc = "parseArgs" \/ (pc = "exited" /\ exitCode = 1)
        /\ rli = "none" /\ asked = <<>> /\ fs = fs0 /\ NoPatcherRan

\* Interactivity is disabled on the command line in one of the recognised forms.
InteractiveDisabled ==
    \/ ("interactive" \in cliArgs.present /\ ~cliArgs.interactive)
    \/ ArgvIncludes(argv, Chars("--no-interactive"))
    \/ ArgvIncludes(argv, Chars("--interactive=false"))

\* C8: when interactivity is disabled in any recognised form the run asks no
\* question at all and applies the patchers unconditionally.
C8_DisabledAsksNothing ==
    (rli # "none" /\ InteractiveDisabled) =>
        /\ asked = <<>>
        /\ pc = "exited" => (Len(done) = 5 \/ raised # "")

\* C9: on every path by which a run ends after the readline interface was
\* created, rli.close() has been executed before the process exits.
C9_ReadlineAlwaysClosed == (pc = "exited" /\ rli # "none") => rli = "closed"

\* C10: exit code 0 exactly when all five patchers completed or the user
\* declined, exit code 1 exactly when the --packageManager value was invalid or
\* a stage raised an error, and no other outcome.
C10_ExitCodes ==
    pc = "exited" =>
        /\ exitCode \in {0, 1}
        /\ exitCode = 0 <=> (Len(done) = 5 \/ (Confirmed /\ Declines(confirmAnswer)))
        /\ exitCode = 1 <=> (InvalidPackageManagerGiven \/ raised # "")

\* The patchers in the order of applyBootstrapChanges.
PatcherOrder ==
    <<"package.json", "README.md", ".env", ".cursor/worktrees.json",
      ".github/workflows/deploy.yml">>

\* The file of the k-th patcher in a project.
TargetFile(project, k) ==
    CASE k = 1 -> project.pkg
      [] k = 2 -> project.readme
      [] k = 3 -> project.env
      [] k = 4 -> project.worktrees
      [] k = 5 -> project.deploy

\* The content the k-th patcher gives its file, from the pre-run project and the
\* options of the run.
PatchedFile(k) ==
    CASE k = 1 -> [name |-> options.name, description |-> options.description]
      [] k = 2 -> File(updateReadme(fs0.readme.content, options.name))
      [] k = 3 -> PatchEnv(fs0.env, options.name, options.description)
      [] k = 4 -> File(updateWorktreesJson(options.packageManager))
      [] k = 5 -> File(updateDeployYml(fs0.deploy.content, options.packageManager))

\* C11: the patchers run in the order package.json, README.md, .env,
\* .cursor/worktrees.json, .github/workflows/deploy.yml; when the k-th one fails
\* the files of patchers 1..k-1 hold their new content, those of patchers k+1..5
\* their pre-run content, no later patcher runs and the run ends with exit code 1.
C11_FailureKeepsEarlierPatches ==
    /\ Len(done) <= 5 /\ done = SubSeq(PatcherOrder, 1, Len(done))
    /\ \A k \in 1..Len(done) : TargetFile(fs, k) = PatchedFile(k)
    /\ raised # "" =>
          LET k == Len(done) + 1
          IN  /\ k <= 5 /\ raised = PatcherOrder[k]
              /\ \A j \in (k + 1)..5 : TargetFile(fs, j) = TargetFile(fs0, j)
              /\ pc \in {"catch", "exited"}
              /\ pc = "exited" => exitCode = 1

\* The .env patcher failed in a run over an existing .env: package.json and
\* README.md are patched, the three later files are as before, exit code 1.
C11_Witness ==
    /\ raised = ".env" /\ pc = "exited" /\ exitCode = 1
    /\ done = <<"package.json", "README.md">>
    /\ fs.pkg # fs0.pkg /\ fs.readme # fs0.readme
    /\ fs.env = fs0.env /\ fs0.env.exists
    /\ fs.worktrees = fs0.worktrees /\ fs.deploy = fs0.deploy

\* collectOptions has built the configuration.
ConfigurationBuilt == options # NoOptions

\* The question has been put to the user.
Asked(question) == \E k \in 1..Len(asked) : asked[k] = question

\* C12: once built, the configuration's packageManager is one of npm, yarn, pnpm;
\* an invalid `--packageManager` value ends the run in argument parsing with exit
\* code 1, so that no configuration is built from it; an answer at the
\* package-manager prompt is taken when its trimmed form is valid, and otherwise
\* leaves the value resolved before the prompt and the run goes on to the
\* confirmation.
C12_PackageManagerValidated ==
    /\ ConfigurationBuilt => options.packageManager \in PACKAGE_MANAGERS
    /\ "packageManager" \in cliArgs.present => cliArgs.packageManager \in PACKAGE_MANAGERS
    /\ InvalidPackageManagerGiven =>
          /\ ~ConfigurationBuilt
          /\ pc = "parseArgs" \/ (pc = "exited" /\ exitCode = 1)
    /\ Asked("packageManager") =>
          LET trimmedPm == Trim(answers.packageManager)
              previous == OrElse(cliArgs.packageManager, DEFAULTS.packageManager)
          IN  /\ options.packageManager =
                    IF trimmedPm \in PACKAGE_MANAGERS THEN trimmedPm ELSE previous
              /\ pc = "exited" => Confirmed

\* The value resolved from a prompt answer, a CLI value, a manifest value and a
\* default: the first of them that is given, in this order.
Precedence(prompted, answer, cliGiven, cliValue, manifestValue, default) ==
    IF prompted /\ Trim(answer) # <<>> THEN Trim(answer)
    ELSE IF cliGiven THEN cliValue
    ELSE IF manifestValue # <<>> THEN manifestValue
    ELSE default

\* C13: the resolved name and description are the trimmed prompt answer when the
\* prompt ran and the answer is not empty, otherwise the CLI value, otherwise the
\* value stored in the manifest, otherwise the default; the manifest level is the
\* manifest of the project, or the defaults when reading it failed.
C13_ResolutionPrecedence ==
    ConfigurationBuilt =>
        /\ \/ collectedPackageJson = fs0.pkg
           \/ collectedPackageJson =
                 [name |-> DEFAULTS.name, description |-> DEFAULTS.description]
        /\ options.name =
              Precedence(Asked("name"), answers.name, "name" \in cliArgs.present,
                         cliArgs.name, collectedPackageJson.name, DEFAULTS.name)
        /\ options.description =
              Precedence(Asked("description"), answers.description,
                         "description" \in cliArgs.present, cliArgs.description,
                         collectedPackageJson.description, DEFAULTS.description)

\* A run with `--name app` whose manifest could not be read: the name stays the
\* CLI value at an empty answer, the description is the default, and the run
\* has gone on to apply the patchers.
C13_Witness ==
    /\ ConfigurationBuilt /\ Asked("name") /\ Asked("description")
    /\ answers.name = <<>> /\ answers.description = <<>>
    /\ cliArgs.name = Chars("app") /\ options.name = Chars("app")
    /\ collectedPackageJson.description # fs0.pkg.description
    /\ options.description = DEFAULTS.description
    /\ Len(done) = 5

(***************************************************************************)
(* Properties of the .env patcher                                          *)
(***************************************************************************)

\* The lines of a text file: the pieces between newlines, without the empty
\* piece after a final newline.
TextLines(content) ==
    LET parts == Split(content, "\n")
    IN  IF parts[Len(parts)] = <<>> THEN SubSeq(parts, 1, Len(parts) - 1) ELSE parts

\* The lines of the .env file before the first run and after it.
EnvBefore == TextLines(fs0.env.content)

EnvAfter == TextLines(hist[1])

OwnedKeys == {ENV_VARS.TITLE, ENV_VARS.DESCRIPTION}

\* The line assigns a tool-owned key, as the reader understands it.
OwnedAssignment(line) == ~parseEnvLine(line).null /\ parseEnvLine(line).key \in OwnedKeys

\* A comment line, a blank line or an assignment of an unrelated key.
ForeignLine(line) == ~OwnedAssignment(line)

\* The index of the last line that is not blank, 0 when every line is blank.
LastNonBlank(lines) ==
    LET nb == {i \in 1..Len(lines) : Trim(lines[i]) # <<>>}
    IN  IF nb = {} THEN 0 ELSE CHOOSE i \in nb : \A j \in nb : j <= i

\* C3 as stated: every comment line, blank line and unrelated assignment keeps
\* its content and its index, and every line changed or added is an assignment
\* of a tool-owned key.
C3_AllForeignLinesKept ==
    Len(hist) >= 1 =>
        LET before == EnvBefore
            after == EnvAfter
        IN  /\ \A i \in 1..Len(before) :
                  ForeignLine(before[i]) => i <= Len(after) /\ after[i] = before[i]
            /\ \A j \in 1..Len(after) :
                  (j > Len(before) \/ after[j] # before[j]) => OwnedAssignment(after[j])

\* C3 amended: up to the last non-blank line every comment line, blank line and
\* unrelated assignment keeps its content and its index and every changed line
\* is an assignment of a tool-owned key; the blank lines after the last non-blank
\* line are either all kept, with nothing appended, or replaced by one separating
\* blank line (none when the file had no other line) and the appended assignments
\* of tool-owned keys.
C3_ForeignLinesKeptUpToTrailingBlanks ==
    Len(hist) >= 1 =>
        LET before == EnvBefore
            after == EnvAfter
            last == LastNonBlank(before)
            rest == SubSeq(after, last + 1, Len(after))
            sep == IF last > 0 THEN 1 ELSE 0
        IN  /\ Len(after) >= last
            /\ \A i \in 1..last :
                  IF ForeignLine(before[i]) THEN after[i] = before[i]
                  ELSE OwnedAssignment(after[i])
            /\ \/ rest = SubSeq(before, last + 1, Len(before))
               \/ /\ Len(rest) > sep
                  /\ \A k \in 1..Len(rest) :
                        IF k <= sep THEN rest[k] = <<>>
                        ELSE OwnedAssignment(rest[k]) /\ Trim(rest[k]) = rest[k]

\* A file with an unrelated key and two trailing blank lines has been patched:
\* the key is in place, one blank line is left and the two keys are appended.
C3_Witness ==
    /\ Len(hist) >= 1
    /\ EnvBefore = <<Chars("A=1"), <<>>, <<>>>>
    /\ Len(EnvAfter) = 4 /\ EnvAfter[1] = Chars("A=1") /\ EnvAfter[2] = <<>>
    /\ OwnedAssignment(EnvAfter[3]) /\ OwnedAssignment(EnvAfter[4])

\* C4: after writeEnvFile with VITE_TITLE=name and VITE_DESCRIPTION=description,
\* readEnvFile returns these two values, whatever the file held before.
C4_WriteThenRead ==
    Len(hist) >= 1 =>
        LET env == readEnvFile(File(hist[1]))
        IN  /\ OwnedKeys \subseteq DOMAIN env
            /\ env[ENV_VARS.TITLE] = options.name
            /\ env[ENV_VARS.DESCRIPTION] = options.description

\* The two assignments the patcher writes, in the order it appends them.
OwnedLines ==
    <<ENV_VARS.TITLE \o <<"=">> \o options.name,
      ENV_VARS.DESCRIPTION \o <<"=">> \o options.description>>

\* No line of the file assigns a tool-owned key.
LacksOwnedKeys(lines) == \A i \in 1..Len(lines) : ForeignLine(lines[i])

\* C15 as stated: without a .env file, or with an empty one, the file written is
\* the two lines VITE_TITLE=n and VITE_DESCRIPTION=d and a final newline; for a
\* non-empty file without the two keys the file written is the prior lines
\* without their trailing blank lines, one blank line, and the two lines.
C15_CreatedOrAppendedAfterOneBlank ==
    Len(hist) >= 1 =>
        LET before == EnvBefore
        IN  /\ fs0.env.content = <<>> => hist[1] = Join(OwnedLines, <<"\n">>) \o <<"\n">>
            /\ (fs0.env.content # <<>> /\ LacksOwnedKeys(before)) =>
                  hist[1] = Join(SubSeq(before, 1, LastNonBlank(before)) \o <<<<>>>>
                                    \o OwnedLines, <<"\n">>) \o <<"\n">>

\* C15 amended: without a .env file, or with one that holds blank lines only, the
\* file written is the two lines VITE_TITLE=n and VITE_DESCRIPTION=d and a final
\* newline, with no leading blank line; for a file with a non-blank line and
\* without the two keys the file written is the prior lines without their
\* trailing blank lines, one blank line, and the two lines.
C15_CreatedOrAppendedAfterContent ==
    Len(hist) >= 1 =>
        LET before == EnvBefore
            last == LastNonBlank(before)
        IN  LacksOwnedKeys(before) =>
                hist[1] = Join(SubSeq(before, 1, last)
                                  \o (IF last > 0 THEN <<<<>>>> ELSE <<>>)
                                  \o OwnedLines, <<"\n">>) \o <<"\n">>

\* A run without a .env file has created it with the two lines.
C15_Witness ==
    /\ Len(hist) >= 1 /\ ~fs0.env.exists
    /\ options.name = Chars("my app")
    /\ hist[1] = Chars("VITE_TITLE=my app\nVITE_DESCRIPTION=demo\n")

\* C17: whatever the .env file held, the content writeEnvFile writes ends with
\* exactly one newline: it is not missing and no blank line follows the last line.
C17_EndsWithOneNewline ==
    \A k \in 1..Len(hist) :
        /\ EndsWith(hist[k], <<"\n">>)
        /\ ~EndsWith(hist[k], <<"\n", "\n">>)

\* The indices of the lines that assign key, as parseEnvLine reads them.
AssignmentsOf(lines, key) ==
    {i \in 1..Len(lines) : ~parseEnvLine(lines[i]).null /\ parseEnvLine(lines[i]).key = key}

\* The value the run gives a tool-owned key.
NewValue(key) == IF key = ENV_VARS.TITLE THEN options.name ELSE options.description

\* C18: when a line of the .env file assigns a tool-owned key, as parseEnvLine
\* recognises it, writeEnvFile rewrites that line as KEY=newvalue at its index and
\* adds no further assignment of the key; a key no line assigns is appended once,
\* after the lines the file had.
C18_OwnedKeyReplacedInPlace ==
    Len(hist) >= 1 =>
        LET before == EnvBefore
            after == EnvAfter
        IN  \A key \in OwnedKeys :
                LET was == AssignmentsOf(before, key)
                    is == AssignmentsOf(after, key)
                IN  IF was # {}
                    THEN LET i == CHOOSE x \in was : \A y \in was : x <= y
                         IN  /\ i <= Len(after)
                             /\ after[i] = key \o <<"=">> \o NewValue(key)
                             /\ is = was
                    ELSE /\ Cardinality(is) = 1
                         /\ \A j \in is :
                               /\ j > LastNonBlank(before)
                               /\ after[j] = key \o <<"=">> \o NewValue(key)

\* C22: applying the read-modify-write of the .env file twice with the same
\* name and description gives the file of one application: the second run adds
\* no blank line and no key line.
C22_EnvPatchIdempotent ==
    Len(hist) >= 2 => hist[2] = hist[1]

\* A file with an unrelated key and a trailing blank line has been patched
\* twice: the first run appended the two keys, the second changed nothing.
C22_Witness ==
    /\ Len(hist) = 2
    /\ fs0.env.content = Chars("A=1\n\n")
    /\ options.name = Chars("my app")
    /\ hist[1] = Chars("A=1\n\nVITE_TITLE=my app\nVITE_DESCRIPTION=demo\n")
    /\ hist[2] = hist[1]

(***************************************************************************)
(* Properties of the README patcher                                        *)
(***************************************************************************)

\* The number of places where p occurs in s.
Count(s, p) == Cardinality({i \in 1..Len(s) : OccursAt(s, p, i)})

ResourcesHeader == Chars("## Resources")

\* The part of the prior README that the new title does not replace: all of it,
\* or what follows line 1 when line 1 is a heading.
KeptOfReadme(content) ==
    IF StartsWith(content, <<"#">>)
    THEN LET nl == {i \in 1..Len(content) : content[i] = "\n"}
         IN  IF nl = {} THEN <<>>
             ELSE SubSeq(content, CHOOSE i \in nl : \A j \in nl : i <= j, Len(content))
    ELSE content

\* C5 as stated: applying updateReadme twice with the same name gives the
\* document of one application, and that document holds the header "## Resources"
\* exactly once.
C5_IdempotentWithOneHeader ==
    /\ Len(hist) >= 1 => Count(hist[1], ResourcesHeader) = 1
    /\ Len(hist) >= 2 => hist[2] = hist[1]

\* C5 amended: applying updateReadme twice with the same name gives the document
\* of one application; that document holds "## Resources" once when the retitled
\* prior content did not hold it, and otherwise as often as the new title line
\* and the kept prior content hold it: nothing is appended and nothing removed.
C5_IdempotentAppendsAtMostOnce ==
    /\ Len(hist) >= 1 =>
          LET c == Count(<<"#", " ">> \o options.name, ResourcesHeader)
                      + Count(KeptOfReadme(fs0.readme.content), ResourcesHeader)
          IN  Count(hist[1], ResourcesHeader) = (IF c = 0 THEN 1 ELSE c)
    /\ Len(hist) >= 2 => hist[2] = hist[1]

\* A README without the section has been patched twice: the second run changed
\* nothing and the section is there once.
C5_Witness ==
    /\ Len(hist) = 2
    /\ fs0.readme.content = Chars("# old\ntext")
    /\ hist[2] = hist[1]
    /\ hist[1] = Chars("# app\ntext\n\n") \o RESOURCES_SECTION

\* The lines updateReadmeTitle is to produce from the prior README: line 1
\* replaced by the title when it is a heading, the title put above it otherwise.
Retitled(content, name) ==
    LET lines == Split(content, "\n")
        title == <<"#", " ">> \o name
    IN  IF lines[1] # <<>> /\ lines[1][1] = "#"
        THEN <<title>> \o SubSeq(lines, 2, Len(lines))
        ELSE <<title>> \o lines

C20_TitleKeepsContent ==
    Len(hist) >= 1 =>
        LET before == Split(fs0.readme.content, "\n")
            title == <<"#", " ">> \o options.name
            after == Split(updateReadmeTitle(fs0.readme.content, options.name), "\n")
        IN  /\ hist[1] = appendResourcesSection(Join(after, <<"\n">>))
            /\ after[1] = title
            /\ IF StartsWith(before[1], <<"#">>)
               THEN /\ Len(after) = Len(before)
                    /\ \A i \in 2..Len(before) : after[i] = before[i]
               ELSE /\ Len(after) = Len(before) + 1
                    /\ \A i \in 1..Len(before) : after[i + 1] = before[i]

\* A README whose first line is no heading has been retitled: the title stands
\* above the two original lines.
C20_Witness ==
    /\ Len(hist) >= 1
    /\ fs0.readme.content = Chars("text\n# old")
    /\ options.name = Chars("app")
    /\ StartsWith(hist[1], Chars("# app\ntext\n# old\n"))

(***************************************************************************)
(* Properties of the worktrees patcher                                     *)
(***************************************************************************)

\* The document the specification gives for a package manager: the object
\* {"setup-worktree": [cmd]} printed with an indentation of two and a newline.
WorktreesDocument(pm) ==
    IF pm = Chars("npm") THEN Chars("{\n  \"setup-worktree\": [\n    \"npm install\"\n  ]\n}\n")
    ELSE IF pm = Chars("pnpm")
    THEN Chars("{\n  \"setup-worktree\": [\n    \"pnpm install\"\n  ]\n}\n")
    ELSE Chars("{\n  \"setup-worktree\": [\n    \"yarn\"\n  ]\n}\n")

\* C16: whatever .cursor/worktrees.json held, after updateWorktreesJson(pm) it
\* holds exactly the pretty-printed object {"setup-worktree": [cmd(pm)]} and a
\* newline, with cmd(npm) = "npm install", cmd(pnpm) = "pnpm install" and
\* cmd(yarn) = "yarn".
C16_WorktreesOverwritten ==
    \A k \in 1..Len(hist) :
        /\ hist[k] = WorktreesDocument(options.packageManager)
        /\ fs.worktrees = File(hist[k])

\* A file with a key of its own has been overwritten for yarn.
C16_Witness ==
    /\ Len(hist) >= 1
    /\ options.packageManager = Chars("yarn")
    /\ fs0.worktrees.content = Chars("{\n  \"x\": 1\n}")
    /\ ~Includes(hist[1], Chars("\"x\""))
    /\ Includes(hist[1], Chars("\"yarn\""))

(***************************************************************************)
(* Properties of the workflow patcher                                      *)
(***************************************************************************)

\* The CI install command of a package manager, as the specification lists it.
CiCommand(pm) ==
    IF pm = Chars("npm") THEN Chars("npm ci")
    ELSE IF pm = Chars("pnpm") THEN Chars("pnpm install")
    ELSE Chars("yarn install --frozen-lockfile")

\* The line names the step "Install dependencies".
StepLine(line) == Trim(line) = Chars("- name: Install dependencies")

\* The line is a run instruction with an argument.
RunLine(line) == StartsWith(TrimStart(line), Chars("run: ")) /\ Len(TrimStart(line)) > 5

\* The part of a run line before its argument.
RunPrefix(line) == SubSeq(line, 1, Len(line) - Len(TrimStart(line)) + 5)

InstallSteps(lines) ==
    {i \in 1..(Len(lines) - 1) : StepLine(lines[i]) /\ RunLine(lines[i + 1])}

\* C21: updateDeployYml takes the fallback scan only when the primary pattern
\* does not match, and either way changes at most one line; when the document
\* holds several "Install dependencies" steps followed by a run line, the run
\* line of the first of them, in document order, is the one line changed.
C21_OnlyFirstStepChanged ==
    Len(hist) >= 1 =>
        LET content == fs0.deploy.content
            before == Split(content, "\n")
            after == Split(hist[1], "\n")
            steps == InstallSteps(before)
            installCommand == CiCommand(options.packageManager)
        IN  /\ Len(after) = Len(before)
            /\ Cardinality({i \in 1..Len(before) : after[i] # before[i]}) <= 1
            /\ InstallPatternTest(content) =>
                  hist[1] = InstallPatternReplace(content, installCommand)
            /\ steps # {} =>
                  LET first == CHOOSE i \in steps : \A j \in steps : i <= j
                  IN  after = [before EXCEPT ![first + 1] =
                                  RunPrefix(before[first + 1]) \o installCommand]

\* No line of the document holds "Install dependencies" with "run:" in the line
\* right after it.
NoInstallRunPair(content) ==
    LET lines == Split(content, "\n")
    IN  \A i \in 1..(Len(lines) - 1) :
            ~(Includes(lines[i], Chars("Install dependencies"))
                /\ Includes(lines[i + 1], Chars("run:")))

\* No step line "- name: Install dependencies" of the document is followed,
\* after whitespace and blank lines only, by a run instruction.
NoLooseInstallStep(content) ==
    \A p \in 2..Len(content) :
        (OccursAt(content, StepName, p) /\ content[p - 1] \in Whitespace) =>
            LET rest == TrimStart(SubSeq(content, p + Len(StepName), Len(content)))
            IN  ~(Len(rest) < Len(content) - p - Len(StepName) + 1
                    /\ StartsWith(rest, Chars("run: "))
                    /\ Len(rest) > 5 /\ rest[6] \notin LineTerminators)

\* The workflow patcher, the last of the five, has returned.
DeployPatcherReturned == Len(done) = 5

\* C23 as stated: when no line of the workflow holds "Install dependencies" with
\* "run:" in the line right after it, updateDeployYml writes the document back
\* unchanged and raises no error, and the run ends with exit code 0.
C23_NoPairLeavesWorkflow ==
    (DeployPatcherReturned /\ NoInstallRunPair(fs0.deploy.content)) =>
        /\ fs.deploy = fs0.deploy
        /\ raised = "" /\ pc \in {"finally", "returned", "exited"}
        /\ pc = "exited" => exitCode = 0

\* C23 amended: when no line of the workflow holds "Install dependencies" with
\* "run:" in the line right after it and no step line "- name: Install
\* dependencies" is followed, across blank lines, by a run instruction,
\* updateDeployYml writes the document back unchanged and raises no error, and
\* the run ends with exit code 0.
C23_NoMatchLeavesWorkflow ==
    ( /\ DeployPatcherReturned
      /\ NoInstallRunPair(fs0.deploy.content)
      /\ NoLooseInstallStep(fs0.deploy.content) ) =>
        /\ fs.deploy = fs0.deploy
        /\ raised = "" /\ pc \in {"finally", "returned", "exited"}
        /\ pc = "exited" => exitCode = 0

\* A run over the workflow without the step has ended with exit code 0 and the
\* workflow as it was, the other four files patched.
C23_Witness ==
    /\ fs0.deploy = DeployBare /\ fs.deploy = DeployBare
    /\ Len(done) = 5 /\ pc = "exited" /\ exitCode = 0
    /\ fs.worktrees # fs0.worktrees

(***************************************************************************)
(* Properties of parseArgs                                                 *)
(***************************************************************************)

\* A token that is no flag.
Word(token) == ~StartsWith(token, <<"-", "-">>)

\* C7: for `--name w1 ... wk --description v1 ... vm` (k, m >= 1, no word starting
\* with "--") parseArgs returns the words of each flag joined by single spaces:
\* the collection stops at `--description`, which is then processed once as a flag.
C7_MultiWordValues ==
    \A k \in 1..(Len(argv) - 3) :
        ( /\ pc = "createReadline"
          /\ argv[1] = Chars("--name")
          /\ argv[k + 2] = Chars("--description")
          /\ \A i \in 2..Len(argv) : i # k + 2 => Word(argv[i]) ) =>
            LET name == Join(SubSeq(argv, 2, k + 1), <<" ">>)
                description == Join(SubSeq(argv, k + 3, Len(argv)), <<" ">>)
            IN  /\ cliArgs.name = name
                /\ cliArgs.description = description
                /\ name # <<>> => "name" \in cliArgs.present
                /\ description # <<>> => "description" \in cliArgs.present
                /\ cliArgs.present \subseteq {"name", "description"}
                /\ processed = <<1, k + 2>>

\* `--name a yarn --description a` has been parsed.
C7_Witness ==
    /\ pc = "createReadline"
    /\ argv = <<Chars("--name"), Chars("a"), Chars("yarn"), Chars("--description"), Chars("a")>>
    /\ cliArgs.name = Chars("a yarn")
    /\ cliArgs.description = Chars("a")

\* C14: when `--no-interactive` is among the arguments, at any position and with
\* any other flags, the configuration parseArgs and mergeOptions produce has
\* interactive = false.
C14_NoInteractiveWins ==
    (pc = "createReadline" /\ ArgvIncludes(argv, Chars("--no-interactive"))) =>
        mergeOptions(cliArgs, fs.pkg).interactive = FALSE

====
